---- MODULE Spec2Model ----
(***************************************************************************)
(* A model of sdjquiz: the quiz data model (model.py), the session engine  *)
(* (controller/abstract_controller.py, controller.py) and the console      *)
(* answer validator (controller/basic_tui_controller.py).                  *)
(*                                                                         *)
(* Python strings are sequences of one-character strings, Python None is   *)
(* the value None, and an exception is carried as its class name.          *)
(***************************************************************************)
EXTENDS Integers, Sequences, FiniteSets, TLC

VARIABLES
    \* ---- ConsoleQuizController.is_valid_answer / get_user_answer, as functions
    text_string,      \* is_valid_answer's text_string argument
    max_index,        \* is_valid_answer's max_index argument (answers_count)
    values,           \* is_valid_answer's values argument (correct_count)
    valid,            \* "unchecked", or what is_valid_answer returned / raised
    converted,        \* Unconverted, or what the conversion of get_user_answer gave
    \* ---- QuizController.start and _play_quiz: one run of the program
    pc,               \* where the run is
    file,             \* what is at the path the user gave: its state and its document
    quiz,             \* self.quiz
    raised,           \* the exception load_quiz raised, "none" when it returned
    exit_status,      \* None while the process runs, then its exit status
    uncaught,         \* the exception that ended the process, "none" otherwise
    called,           \* the methods of self.vue called so far
    errors_shown,     \* the number of calls of vue.show_error
    loads,            \* the number of calls of load_quiz
    user_input,       \* controller.py, start: the text typed at the count prompt
    questions_count,  \* the requested number of questions
    questions,        \* the selected questions, as keys of the bank
    idx,              \* the number of questions already processed
    score,            \* the running score
    max_score,        \* the sum of the scores of the selected questions
    correct,          \* the set of correct indices of the current question
    user_answer,      \* get_user_answer: the text typed at the answer prompt
    user_set,         \* the set get_user_answer returned
    result,           \* the arguments of vue.show_result
    matched,          \* history: the bank keys of the questions answered with the exact set
    last_call,        \* history: the method of self.vue called last, clear() left aside
    presented,        \* history: the bank keys show_question was called for, in order
    shown,            \* history: the arguments of the last call of vue.show_question
    results_shown,    \* history: the number of calls of vue.show_result
    \* ---- model.py used as a library: a Question or a Quiz built and then edited
    record,           \* the arguments the object is built from
    edited,           \* the Question being edited, NoObject in a run that edits a Quiz
    authored,         \* the Quiz being edited, NoObject in a run that edits a Question
    op,               \* the last call made on the object: its name and its arguments
    error,            \* the exception that call raised, "none" when it returned
    uuids,            \* the number of identifiers uuid.uuid4 generated
    \* ---- sdjquizz/components: a Quizz built and then loaded from files
    quizz,            \* the Quizz, NoObject in a run that builds none
    returned          \* what the last call of Quizz.load returned, None when it raised

validVars == <<text_string, max_index, values, valid, converted>>

historyVars == <<last_call, presented, shown, results_shown>>

quizzVars == <<quizz, returned>>

authorVars == <<record, edited, authored, op, error, uuids, quizzVars>>

sessionVars == <<pc, file, quiz, raised, exit_status, uncaught, called, errors_shown, loads,
                 user_input, questions_count, questions, idx, score, max_score, correct,
                 user_answer, user_set, result, matched, historyVars>>

vars == <<text_string, max_index, values, valid, converted,
          pc, file, quiz, raised, exit_status, uncaught, called, errors_shown, loads,
          user_input, questions_count, questions, idx, score, max_score, correct,
          user_answer, user_set, result, matched,
          last_call, presented, shown, results_shown,
          record, edited, authored, op, error, uuids, quizz, returned>>

(***************************************************************************)
(* Bounds of the model.                                                    *)
(***************************************************************************)
\* longest answer string typed by the user that is enumerated
MaxLen == 3
\* largest number of displayed answers given to the validator
MaxShown == 10
\* largest number of required selections given to the validator
MaxRequired == 2
\* most questions in a quiz document
MaxQuestions == 2
\* most answers of a question in a quiz document
MaxAnswers == 2
\* largest score of a question in a quiz document
MaxScore == 1
\* longest text typed at the question count prompt
MaxCountLen == 2
\* longest list of keywords given to a method of Question
MaxKeywords == 2
\* most identifiers uuid.uuid4 generates while a Quiz is edited
MaxUuids == 3
\* Quizz.load is called while the Quizz holds fewer questions than this
MaxHeld == 3

(***************************************************************************)
(* Python values.                                                          *)
(***************************************************************************)
\* None where a string or a number is expected
None == <<"None">>

\* None where an object (a dict, a Quiz) is expected
NoObject == [none |-> TRUE]

\* ord(c) for the characters the model uses
Ord(c) ==
    CASE c = "\n" -> 10
      [] c = "+" -> 43
      [] c = "," -> 44
      [] c = "-" -> 45
      [] c = "0" -> 48
      [] c = "1" -> 49
      [] c = "2" -> 50
      [] c = "3" -> 51
      [] c = "4" -> 52
      [] c = "5" -> 53
      [] c = "6" -> 54
      [] c = "7" -> 55
      [] c = "8" -> 56
      [] c = "9" -> 57
      [] c = "A" -> 65
      [] c = "B" -> 66
      [] c = "Q" -> 81
      [] c = "T" -> 84
      [] c = "a" -> 97
      [] c = "b" -> 98
      [] c = "q" -> 113
      [] c = "t" -> 116
      [] c = "x" -> 120
      [] c = "{" -> 123
      [] c = "}" -> 125

Characters == {"\n", "+", ",", "-", "0", "1", "2", "3", "4", "5", "6", "7", "8", "9", "x", "{", "}"}

DigitChars == <<"0", "1", "2", "3", "4", "5", "6", "7", "8", "9">>

IsDigit(c) == \E d \in 0..9 : DigitChars[d + 1] = c

DigitValue(c) == CHOOSE d \in 0..9 : DigitChars[d + 1] = c

\* str(n) for an int n
RECURSIVE Str(_)
Str(n) ==
    IF n < 0 THEN <<"-">> \o Str(-n)
    ELSE IF n < 10 THEN <<DigitChars[n + 1]>>
    ELSE Str(n \div 10) \o <<DigitChars[(n % 10) + 1]>>

\* all strings over alphabet of length 0..n
RECURSIVE StringsUpTo(_, _)
StringsUpTo(alphabet, n) ==
    IF n = 0 THEN {<<>>}
    ELSE LET shorter == StringsUpTo(alphabet, n - 1)
         IN  shorter \cup {s \o <<c>> : s \in shorter, c \in alphabet}

\* str.split(sep) for a one-character separator: the list of the pieces
RECURSIVE Split(_, _)
Split(s, sep) ==
    IF \A i \in 1..Len(s) : s[i] # sep THEN <<s>>
    ELSE LET i == CHOOSE j \in 1..Len(s) : s[j] = sep /\ \A h \in 1..(j - 1) : s[h] # sep
         IN  <<SubSeq(s, 1, i - 1)>> \o Split(SubSeq(s, i + 1, Len(s)), sep)

\* str.strip() as int() applies it: leading and trailing whitespace removed
RECURSIVE Strip(_)
Strip(s) ==
    IF s = <<>> THEN s
    ELSE IF s[1] = "\n" THEN Strip(Tail(s))
    ELSE IF s[Len(s)] = "\n" THEN Strip(SubSeq(s, 1, Len(s) - 1))
    ELSE s

\* the value of a non-empty string of decimal digits
RECURSIVE DecimalValue(_)
DecimalValue(s) ==
    IF Len(s) = 1 THEN DigitValue(s[1])
    ELSE 10 * DecimalValue(SubSeq(s, 1, Len(s) - 1)) + DigitValue(s[Len(s)])

IsDigits(s) == s # <<>> /\ \A i \in 1..Len(s) : IsDigit(s[i])

\* int(s): [exc |-> "none", value |-> n], or exc |-> "ValueError"
int(s) ==
    LET t == Strip(s)
        signed == t # <<>> /\ t[1] \in {"+", "-"}
        digits == IF signed THEN Tail(t) ELSE t
    IN  IF ~IsDigits(digits) THEN [exc |-> "ValueError", value |-> 0]
        ELSE [exc |-> "none",
              value |-> IF signed /\ t[1] = "-" THEN -DecimalValue(digits)
                        ELSE DecimalValue(digits)]

(***************************************************************************)
(* ConsoleQuizController.is_valid_answer: the regular expression           *)
(*   f"^[1-{max_index}](,[1-{max_index}]){additional_values}$"             *)
(* with additional_values = "{" + str(values-1) + "}", as Python's re      *)
(* module reads the text the f-string builds.                              *)
(***************************************************************************)
\* the text between the brackets, "1-" + str(max_index): the range from "1" to the
\* first character of str(max_index), then every further character as itself
ClassRangeHigh(m) == Head(Str(m))

\* re.compile raises re.error("bad character range") when the range is reversed
BadCharacterRange(m) == Ord(ClassRangeHigh(m)) < Ord("1")

ClassChars(m) ==
    {c \in Characters : Ord("1") <= Ord(c) /\ Ord(c) <= Ord(ClassRangeHigh(m))}
        \cup {Str(m)[i] : i \in 2..Len(Str(m))}

\* "{n}" is a repetition count only when n is a string of digits; "{-1}" is
\* the four characters themselves, after one occurrence of the group
IsRepeat(k) == k - 1 >= 0

AdditionalValues(k) == <<"{">> \o Str(k - 1) \o <<"}">>

\* s is: one class character, then "," and a class character (k-1) times
MatchesRepeated(s, m, k) ==
    /\ Len(s) = 2 * k - 1
    /\ \A i \in 1..Len(s) :
           IF i % 2 = 1 THEN s[i] \in ClassChars(m) ELSE s[i] = ","

\* s is: a class character, ",", a class character, then the text "{-n}"
MatchesLiteralBraces(s, m, k) ==
    /\ Len(s) = 3 + Len(AdditionalValues(k))
    /\ s[1] \in ClassChars(m)
    /\ s[2] = ","
    /\ s[3] \in ClassChars(m)
    /\ SubSeq(s, 4, Len(s)) = AdditionalValues(k)

MatchesBody(s, m, k) ==
    IF IsRepeat(k) THEN MatchesRepeated(s, m, k) ELSE MatchesLiteralBraces(s, m, k)

\* re.match with ^ ... $: "$" matches at the end and before a final newline
ReMatch(s, m, k) ==
    \/ MatchesBody(s, m, k)
    \/ /\ s # <<>>
       /\ s[Len(s)] = "\n"
       /\ MatchesBody(SubSeq(s, 1, Len(s) - 1), m, k)

\* "True", "False", or "re.error" when compiling the pattern raises
is_valid_answer(text, m, k) ==
    IF text = None THEN "False"
    ELSE IF BadCharacterRange(m) THEN "re.error"
    ELSE IF ReMatch(text, m, k) THEN "True"
    ELSE "False"

\* a conversion that reads the first value only
UserAnswerFirstOnly(text) ==
    LET first == int(Split(text, ",")[1])
    IN  IF first.exc # "none" THEN [exc |-> "ValueError", value |-> {}]
        ELSE [exc |-> "none", value |-> {first.value - 1}]

\* get_user_answer's last statement: set(int(value) - 1 for value in text.split(","))
UserAnswerSet(text) ==
    LET tokens == Split(text, ",")
    IN  IF \E i \in 1..Len(tokens) : int(tokens[i]).exc # "none"
        THEN [exc |-> "ValueError", value |-> {}]
        ELSE [exc |-> "none", value |-> {int(tokens[i]).value - 1 : i \in 1..Len(tokens)}]

(***************************************************************************)
(* The validator and the conversion as functions: every string of the      *)
(* alphabet up to MaxLen, the strings the specification quotes, and None,  *)
(* with every answers_count and correct_count within the bounds.           *)
(***************************************************************************)
\* the conversion has not run
Unconverted == [exc |-> "unconverted", value |-> {}]

ValidatorAlphabet == {"0", "1", "2", ",", "x", "\n"}

QuotedStrings ==
    { <<"1", ",", "3">>,
      <<"1", ",", "3", ",", "4">>,
      <<"6">>,
      <<"1", ",", "1", "{", "-", "1", "}">> }

ValidatorInputs == StringsUpTo(ValidatorAlphabet, MaxLen) \cup QuotedStrings \cup {None}

\* no call was made on self.vue
NoHistory ==
    /\ last_call = "none"
    /\ presented = <<>>
    /\ shown = NoObject
    /\ results_shown = 0

\* no call was made on an object of model.py
NoOp == [name |-> "none", arg |-> <<>>]

\* no Quizz of sdjquizz/components is built
QuizzIdle ==
    /\ quizz = NoObject
    /\ returned = None

\* no Question and no Quiz is being edited
AuthorIdle ==
    /\ record = NoObject
    /\ edited = NoObject
    /\ authored = NoObject
    /\ op = NoOp
    /\ error = "none"
    /\ uuids = 0
    /\ QuizzIdle

\* no session runs while the functions are applied
SessionIdle ==
    /\ pc = "idle"
    /\ file = NoObject
    /\ quiz = NoObject
    /\ raised = "none"
    /\ exit_status = None
    /\ uncaught = "none"
    /\ called = {}
    /\ errors_shown = 0
    /\ loads = 0
    /\ user_input = None
    /\ questions_count = None
    /\ questions = <<>>
    /\ idx = 0
    /\ score = 0
    /\ max_score = 0
    /\ correct = {}
    /\ user_answer = None
    /\ user_set = {}
    /\ result = NoObject
    /\ matched = {}
    /\ NoHistory

InitValid ==
    /\ SessionIdle
    /\ AuthorIdle
    /\ text_string \in ValidatorInputs
    /\ max_index \in 0..MaxShown
    /\ values \in 0..MaxRequired
    /\ valid = "unchecked"
    /\ converted = Unconverted

\* one call of is_valid_answer(text_string, max_index, values)
IsValidAnswer ==
    /\ valid = "unchecked"
    /\ valid' = is_valid_answer(text_string, max_index, values)
    /\ UNCHANGED <<text_string, max_index, values, converted>>
    /\ UNCHANGED <<sessionVars, authorVars>>

\* get_user_answer leaves its loop on an accepted string and converts it
ConvertAnswer ==
    /\ valid = "True"
    /\ converted = Unconverted
    /\ converted' = UserAnswerSet(text_string)
    /\ UNCHANGED <<text_string, max_index, values, valid>>
    /\ UNCHANGED <<sessionVars, authorVars>>

NextValid == IsValidAnswer \/ ConvertAnswer

SpecValid == InitValid /\ [][NextValid]_vars

(***************************************************************************)
(* model.py: Answer, Question, Quiz.  A raw record (a dict loaded from the *)
(* YAML document) is a function whose DOMAIN is the set of its keys.       *)
(***************************************************************************)
\* Answer.__init__(text, correct=False), called as Answer(**answer)
AnswerKeywords == {"text", "correct"}

Answer(answer) ==
    IF ~("text" \in DOMAIN answer /\ DOMAIN answer \subseteq AnswerKeywords)
    THEN [exc |-> "TypeError", value |-> NoObject]
    ELSE [exc |-> "none",
          value |-> [text |-> answer.text,
                     correct |-> IF "correct" \in DOMAIN answer THEN answer.correct
                                 ELSE FALSE]]

\* Question.__init__(title, text, keywords, score, answers, unique_id=None):
\* the fields are stored as given; the property setters are not involved
QuestionRequired == {"title", "text", "keywords", "score", "answers"}

QuestionKeywords == QuestionRequired \cup {"unique_id"}

\* str(uuid.uuid4()) for the n-th question built: a fresh identifier
uuid4(n) == <<"uuid4", n>>

Question(kwargs, n) ==
    IF ~(QuestionRequired \subseteq DOMAIN kwargs /\ DOMAIN kwargs \subseteq QuestionKeywords)
    THEN [exc |-> "TypeError", value |-> NoObject]
    ELSE [exc |-> "none",
          value |-> [unique_id |-> IF "unique_id" \in DOMAIN kwargs /\ kwargs["unique_id"] # None
                                   THEN kwargs["unique_id"] ELSE uuid4(n),
                     title |-> kwargs.title,
                     text |-> kwargs.text,
                     keywords |-> kwargs.keywords,
                     score |-> kwargs.score,
                     answers |-> kwargs.answers]]

\* Question.from_dict(question_data), for the n-th question of the document
Question_from_dict(question_data, n) ==
    IF "answers" \notin DOMAIN question_data THEN [exc |-> "KeyError", value |-> NoObject]
    ELSE LET raw == question_data.answers
             built == [i \in 1..Len(raw) |-> Answer(raw[i])]
         IN  IF \E i \in 1..Len(raw) : built[i].exc # "none"
             THEN [exc |-> "TypeError", value |-> NoObject]
             ELSE Question([k \in DOMAIN question_data |->
                               IF k = "answers" THEN [i \in 1..Len(raw) |-> built[i].value]
                               ELSE question_data[k]], n)

\* Quiz.__init__(title, author, description, questions=None): the question bank is
\* {question.unique_id: question for question in questions}, a later question
\* replacing an earlier one with the same unique_id
QuizRequired == {"title", "author", "description"}

QuizKeywords == QuizRequired \cup {"questions"}

QuestionsBank(built) ==
    [u \in {built[i].unique_id : i \in 1..Len(built)} |->
        LET last == CHOOSE i \in 1..Len(built) :
                        /\ built[i].unique_id = u
                        /\ \A j \in (i + 1)..Len(built) : built[j].unique_id # u
        IN  built[last]]

Quiz(kwargs) ==
    IF ~(QuizRequired \subseteq DOMAIN kwargs /\ DOMAIN kwargs \subseteq QuizKeywords)
    THEN [exc |-> "TypeError", value |-> NoObject]
    ELSE [exc |-> "none",
          value |-> [title |-> kwargs.title,
                     author |-> kwargs.author,
                     description |-> kwargs.description,
                     questions_bank |-> IF "questions" \in DOMAIN kwargs
                                        THEN QuestionsBank(kwargs.questions)
                                        ELSE <<>>]]

\* Quiz.from_dict(quiz_data): only Quiz(**quiz_data) is inside the try block, so
\* what the subscripts and Question.from_dict raise leaves from_dict unchanged
Quiz_from_dict(quiz_data) ==
    IF quiz_data = NoObject THEN [exc |-> "TypeError", value |-> NoObject]
    ELSE IF "questions" \notin DOMAIN quiz_data THEN [exc |-> "KeyError", value |-> NoObject]
    ELSE LET raw == quiz_data.questions
             built == [i \in 1..Len(raw) |-> Question_from_dict(raw[i], i)]
         IN  IF \E i \in 1..Len(raw) : built[i].exc # "none"
             THEN LET first == CHOOSE i \in 1..Len(raw) :
                                   /\ built[i].exc # "none"
                                   /\ \A j \in 1..(i - 1) : built[j].exc = "none"
                  IN  [exc |-> built[first].exc, value |-> NoObject]
             ELSE LET quiz_ == Quiz([k \in DOMAIN quiz_data |->
                                       IF k = "questions"
                                       THEN [i \in 1..Len(raw) |-> built[i].value]
                                       ELSE quiz_data[k]])
                  IN  IF quiz_.exc \in {"TypeError", "ValueError"}
                      THEN [exc |-> "QuizzError", value |-> NoObject]
                      ELSE quiz_

\* Quiz.questions_count
questions_count_of(quiz_) == Cardinality(DOMAIN quiz_.questions_bank)

\* sum(question.score for question in ...) over a set of bank keys
RECURSIVE SumScores(_, _)
SumScores(bank, keys) ==
    IF keys = {} THEN 0
    ELSE LET u == CHOOSE k \in keys : TRUE
         IN  bank[u].score + SumScores(bank, keys \ {u})

\* Quiz.max_score
max_score_of(quiz_) ==
    IF questions_count_of(quiz_) > 0
    THEN SumScores(quiz_.questions_bank, DOMAIN quiz_.questions_bank)
    ELSE 0

\* random.sample(population, k): every sequence of k distinct members
Sample(population, k) ==
    {q \in [1..k -> population] : \A i, j \in 1..k : i # j => q[i] # q[j]}

\* random.choices in place of random.sample: a question may be drawn twice
get_questions_repeating(quiz_, count) ==
    LET n == IF count < 1 \/ count > questions_count_of(quiz_)
             THEN questions_count_of(quiz_) ELSE count
    IN  [1..n -> DOMAIN quiz_.questions_bank]

\* no clamping of count: random.sample raises ValueError for a count above the
\* bank size, and a count below 1 selects nothing
get_questions_unclamped(quiz_, count) ==
    IF count > questions_count_of(quiz_) THEN {}
    ELSE Sample(DOMAIN quiz_.questions_bank, IF count < 0 THEN 0 ELSE count)

\* Quiz.get_questions(count): the questions are named by their bank keys
get_questions(quiz_, count) ==
    LET n == IF count < 1 \/ count > questions_count_of(quiz_)
             THEN questions_count_of(quiz_) ELSE count
    IN  Sample(DOMAIN quiz_.questions_bank, n)

\* random.choices(x, k=len(x)) in place of a shuffle: an element may come twice
\* and another be lost
ShuffleWithRepeats(x) == {[i \in 1..Len(x) |-> x[p[i]]] : p \in [1..Len(x) -> 1..Len(x)]}

\* random.shuffle(x): every reordering of x
Shuffle(x) ==
    {[i \in 1..Len(x) |-> x[p[i]]] :
        p \in {f \in [1..Len(x) -> 1..Len(x)] : \A i, j \in 1..Len(x) : i # j => f[i] # f[j]}}

(***************************************************************************)
(* model.py: the methods that edit a Question or a Quiz after construction. *)
(* A method gives [exc, value]: the exception it raised ("none" when it    *)
(* returned) and the object after the call.                                *)
(***************************************************************************)
\* str.lower() on one character of the model's letters
Lower(c) ==
    CASE c = "A" -> "a"
      [] c = "B" -> "b"
      [] c = "Q" -> "q"
      [] c = "T" -> "t"
      [] OTHER -> c

\* str.lower()
lower(s) == [i \in 1..Len(s) |-> Lower(s[i])]

\* s < t on two str: the first differing character decides, a prefix is smaller
StrLess(s, t) ==
    \E i \in 1..(Len(s) + 1) :
        /\ i <= Len(t)
        /\ \A j \in 1..(i - 1) : s[j] = t[j]
        /\ i = Len(s) + 1 \/ Ord(s[i]) < Ord(t[i])

\* sorted(x) for a list of str
sorted(x) ==
    CHOOSE y \in Shuffle(x) : \A i, j \in 1..Len(y) : i < j => ~StrLess(y[j], y[i])

\* list(S) for a set S: its members in the order the set iterates them, which
\* no caller below depends on
list(S) == CHOOSE y \in [1..Cardinality(S) -> S] : \A i, j \in 1..Cardinality(S) : i # j => y[i] # y[j]

\* set(x) for a list x
set(x) == {x[i] : i \in 1..Len(x)}

\* an assignment to Question.score without the test
Question_score_unchecked(q, v) == [exc |-> "none", value |-> [q EXCEPT !.score = v]]

\* Question.score, the setter
Question_score(q, v) ==
    IF v < 0 THEN [exc |-> "ValueError", value |-> q]
    ELSE [exc |-> "none", value |-> [q EXCEPT !.score = v]]

\* Question.title, the setter
Question_title(q, t) == [exc |-> "none", value |-> [q EXCEPT !.title = lower(t)]]

\* Question.add_answer(text, correct)
add_answer(q, text, right) ==
    [exc |-> "none",
     value |-> [q EXCEPT !.answers = Append(@, [text |-> text, correct |-> right])]]

\* a test against len() alone: a negative index counts from the end of the list
InRangeFromEnd(i, n) == 0 - n <= i /\ i < n

\* answer_index in range(len(self.__answers))
InRange(i, n) == 0 <= i /\ i < n

\* del x[i], for an index Python accepts
Del(x, i) ==
    LET at == IF i < 0 THEN Len(x) + i + 1 ELSE i + 1
    IN  [k \in 1..(Len(x) - 1) |-> IF k < at THEN x[k] ELSE x[k + 1]]

\* Question.delete_answer_by_index(answer_index)
delete_answer_by_index(q, i) ==
    IF ~InRange(i, Len(q.answers)) THEN [exc |-> "AnswerError", value |-> q]
    ELSE [exc |-> "none", value |-> [q EXCEPT !.answers = Del(@, i)]]

\* Question.update_answer(answer_index, text=None, correct=None); correct is
\* given as "True", "False" or "None"
update_answer(q, i, text, right) ==
    IF ~InRange(i, Len(q.answers)) THEN [exc |-> "AnswerError", value |-> q]
    ELSE LET at == IF i < 0 THEN Len(q.answers) + i + 1 ELSE i + 1
             old == q.answers[at]
             new == [text |-> IF text # None THEN text ELSE old.text,
                     correct |-> IF right # "None" THEN right = "True" ELSE old.correct]
         IN  [exc |-> "none", value |-> [q EXCEPT !.answers[at] = new]]

\* Question.add_keywords(keywords)
add_keywords(q, keywords) ==
    LET lowered == {lower(keywords[i]) : i \in 1..Len(keywords)}
    IN  [exc |-> "none",
         value |-> [q EXCEPT !.keywords = sorted(list(set(q.keywords) \cup lowered))]]

\* Question.delete_keywords(keywords)
delete_keywords(q, keywords) ==
    LET lowered == {lower(keywords[i]) : i \in 1..Len(keywords)}
    IN  [exc |-> "none",
         value |-> [q EXCEPT !.keywords = sorted(list(set(q.keywords) \ lowered))]]

\* Question.purge_keywords()
purge_keywords(q) == [exc |-> "none", value |-> [q EXCEPT !.keywords = <<>>]]

\* Question.set_keywords(keywords): the duplicates are removed before the
\* keywords are put in lowercase
set_keywords(q, keywords) ==
    LET distinct == list(set(keywords))
    IN  [exc |-> "none",
         value |-> [q EXCEPT !.keywords =
                        sorted([i \in 1..Len(distinct) |-> lower(distinct[i])])]]

\* Quiz.title and Quiz.description, the setters
Quiz_title(z, t) == [exc |-> "none", value |-> [z EXCEPT !.title = lower(t)]]

Quiz_description(z, t) == [exc |-> "none", value |-> [z EXCEPT !.description = lower(t)]]

\* the question stored under the unique_id argument, None when it was left out
add_question_under_argument(z, kwargs, n) ==
    LET built == Question(kwargs, n)
        u == IF "unique_id" \in DOMAIN kwargs THEN kwargs["unique_id"] ELSE None
    IN  IF built.exc \in {"TypeError", "ValueError"}
        THEN [exc |-> "QuestionError", value |-> z]
        ELSE [exc |-> "none",
              value |-> [z EXCEPT !.questions_bank =
                            [k \in DOMAIN @ \cup {u} |-> IF k = u THEN built.value ELSE @[k]]]]

\* Quiz.add_question(title, text, keywords, score, answers, unique_id=None), the
\* arguments as a record; n numbers the identifier uuid4 generates
add_question(z, kwargs, n) ==
    LET built == Question(kwargs, n)
    IN  IF built.exc \in {"TypeError", "ValueError"}
        THEN [exc |-> "QuestionError", value |-> z]
        ELSE LET u == built.value.unique_id
             IN  [exc |-> "none",
                  value |-> [z EXCEPT !.questions_bank =
                                [k \in DOMAIN @ \cup {u} |-> IF k = u THEN built.value ELSE @[k]]]]

\* Quiz.delete_question(unique_id)
delete_question(z, unique_id) ==
    IF unique_id \notin DOMAIN z.questions_bank THEN [exc |-> "QuizzError", value |-> z]
    ELSE [exc |-> "none",
          value |-> [z EXCEPT !.questions_bank = [k \in DOMAIN @ \ {unique_id} |-> @[k]]]]

(***************************************************************************)
(* The quiz files a run can be given.                                      *)
(***************************************************************************)
Without(d, key) == [k \in DOMAIN d \ {key} |-> d[k]]

With(d, key, v) == [k \in DOMAIN d \cup {key} |-> IF k = key THEN v ELSE d[k]]

\* the answers of a question record: answer i has text i
AnswerRecords(flags) == [i \in 1..Len(flags) |-> [text |-> i, correct |-> flags[i]]]

QuestionRecord(flags, score_) ==
    [title |-> "Question Title", text |-> "Question Text", keywords |-> <<"kw">>,
     score |-> score_, answers |-> AnswerRecords(flags)]

\* the correct flags of the answers of a question, in authoring order
Flags == UNION {[1..n -> BOOLEAN] : n \in 0..MaxAnswers}

\* a negative score, and the scores 1..MaxScore
Scores == {0 - 1} \cup 1..MaxScore

WellFormedQuestions == {QuestionRecord(f, s) : f \in Flags, s \in Scores}

SomeQuestion == QuestionRecord(<<TRUE, FALSE>>, 1)

\* question records Question.from_dict cannot build
MalformedQuestions ==
    {Without(SomeQuestion, k) : k \in QuestionRequired}
        \cup {With(SomeQuestion, "bogus", 0),
              With(SomeQuestion, "answers", <<[correct |-> TRUE]>>),
              With(SomeQuestion, "answers", <<[text |-> 1, correct |-> TRUE, bogus |-> 0]>>)}

\* a question record whose answer leaves `correct` to its default
DefaultedQuestion == With(SomeQuestion, "answers", <<[text |-> 1]>>)

QuizRecord(question_records) ==
    [title |-> "Quiz Title", author |-> "Author", description |-> "Quiz Description",
     questions |-> question_records]

SequencesUpTo(S, n) == UNION {[1..k -> S] : k \in 0..n}

WellFormedDocuments == {QuizRecord(qs) : qs \in SequencesUpTo(WellFormedQuestions, MaxQuestions)}

\* documents Quiz.from_dict cannot build, and the empty document (yaml.load gives None)
MalformedDocuments ==
    {QuizRecord(<<q>>) : q \in MalformedQuestions}
        \cup {QuizRecord(<<SomeQuestion, q>>) : q \in MalformedQuestions}
        \cup {Without(QuizRecord(<<SomeQuestion>>), k) : k \in QuizKeywords}
        \cup {With(QuizRecord(<<SomeQuestion>>), "bogus", 0), NoObject}

Documents == WellFormedDocuments \cup MalformedDocuments \cup {QuizRecord(<<DefaultedQuestion>>)}

\* open() fails on a missing file, an unreadable file and a directory; yaml.load
\* fails on a file that is not YAML; otherwise it gives the document
Files ==
    {[state |-> st, data |-> NoObject] : st \in {"missing", "unreadable", "directory", "not_yaml"}}
        \cup {[state |-> "readable", data |-> d] : d \in Documents}

\* the body of load_quiz's try block
ReadQuiz(f) ==
    CASE f.state = "missing" -> [exc |-> "FileNotFoundError", value |-> NoObject]
      [] f.state = "unreadable" -> [exc |-> "PermissionError", value |-> NoObject]
      [] f.state = "directory" -> [exc |-> "IsADirectoryError", value |-> NoObject]
      [] f.state = "not_yaml" -> [exc |-> "YAMLError", value |-> NoObject]
      [] OTHER -> Quiz_from_dict(f.data)

\* the subclasses of OSError among the exceptions of the model
OSErrors == {"FileNotFoundError", "PermissionError", "IsADirectoryError"}

\* controller/abstract_controller.py, load_quiz: what the except clauses turn
\* into QuizzError; anything else leaves load_quiz as it is
load_quiz(f) ==
    LET r == ReadQuiz(f)
    IN  IF r.exc \in {"FileNotFoundError", "PermissionError", "YAMLError", "QuizzError"}
                        \cup OSErrors
        THEN [exc |-> "QuizzError", value |-> NoObject]
        ELSE r

\* controller.py, load_quiz: there is no except clause for QuizzError or OSError
load_quiz_module(f) ==
    LET r == ReadQuiz(f)
    IN  IF r.exc \in {"FileNotFoundError", "PermissionError", "YAMLError"}
        THEN [exc |-> "QuizzError", value |-> NoObject]
        ELSE r

(***************************************************************************)
(* QuizController.start and QuizController._play_quiz                      *)
(* (controller/abstract_controller.py), with ConsoleQuizController's       *)
(* get_user_answer (controller/basic_tui_controller.py).                   *)
(***************************************************************************)
\* what IntPrompt.ask can return at the count prompt
Counts == (0 - 1)..(MaxQuestions + 1)

\* what Prompt.ask can return at the answer prompt: a line without its newline
AnswerAlphabet == {DigitChars[i + 1] : i \in 1..MaxAnswers} \cup {","}

AnswerInputs == StringsUpTo(AnswerAlphabet, MaxLen) \cup {<<"1", ",", "1", "{", "-", "1", "}">>}

\* the question the loop is at, as a key of the bank
CurrentKey == questions[idx + 1]

CurrentQuestion == quiz.questions_bank[CurrentKey]

\* positions counted from 1, as the user types them
CorrectIndicesOneBased(answers) == {j \in 1..Len(answers) : answers[j].correct}

\* set([idx for idx, answer in enumerate(answers) if answer.correct])
CorrectIndices(answers) == {i - 1 : i \in {j \in 1..Len(answers) : answers[j].correct}}

InitSession ==
    /\ pc = "start"
    /\ file \in Files
    /\ quiz = NoObject
    /\ raised = "none"
    /\ exit_status = None
    /\ uncaught = "none"
    /\ called = {}
    /\ errors_shown = 0
    /\ loads = 0
    /\ user_input = None
    /\ questions_count = None
    /\ questions = <<>>
    /\ idx = 0
    /\ score = 0
    /\ max_score = 0
    /\ correct = {}
    /\ user_answer = None
    /\ user_set = {}
    /\ result = NoObject
    /\ matched = {}
    /\ NoHistory

\* the validator's variables while a session runs
ValidIdle ==
    /\ text_string = None
    /\ max_index = 0
    /\ values = 0
    /\ valid = "unchecked"
    /\ converted = Unconverted

Init == InitSession /\ ValidIdle /\ AuthorIdle

\* start: self.vue.clear(); filepath = self.vue.ask_file_path(); the path is resolved
Start ==
    /\ pc = "start"
    /\ called' = called \cup {"clear", "ask_file_path"}
    /\ pc' = "load"
    /\ UNCHANGED <<file, quiz, raised, exit_status, uncaught, errors_shown, loads, user_input,
                   questions_count, questions, idx, score, max_score, correct, user_answer,
                   user_set, result>>
    /\ UNCHANGED <<matched, validVars, authorVars>>
    /\ last_call' = "ask_file_path"
    /\ UNCHANGED <<presented, shown, results_shown>>

\* the call self.load_quiz(self.quiz_file) returning r: start catches QuizzError
\* only, any other exception ends the process with a traceback and status 1
Loaded(r) ==
    /\ loads' = loads + 1
    /\ raised' = r.exc
    /\ quiz' = IF r.exc = "none" THEN r.value ELSE quiz
    /\ pc' = CASE r.exc = "none" -> "greet"
               [] r.exc = "QuizzError" -> "except"
               [] OTHER -> "crashed"
    /\ uncaught' = IF r.exc \in {"none", "QuizzError"} THEN uncaught ELSE r.exc
    /\ exit_status' = IF r.exc \in {"none", "QuizzError"} THEN exit_status ELSE 1
    /\ UNCHANGED <<file, called, errors_shown, user_input, questions_count, questions, idx,
                   score, max_score, correct, user_answer, user_set, result>>
    /\ UNCHANGED <<matched, validVars, authorVars>>
    /\ UNCHANGED historyVars

LoadQuiz ==
    /\ pc = "load"
    /\ Loaded(load_quiz(file))

\* except QuizzError as err: self.vue.show_error(err); exit(1)
ShowErrorAndExit ==
    /\ pc = "except"
    /\ called' = called \cup {"show_error"}
    /\ errors_shown' = errors_shown + 1
    /\ exit_status' = 1
    /\ pc' = "exited"
    /\ UNCHANGED <<file, quiz, raised, uncaught, loads, user_input, questions_count,
                   questions, idx, score, max_score, correct, user_answer, user_set, result>>
    /\ UNCHANGED <<matched, validVars, authorVars>>
    /\ last_call' = "show_error"
    /\ UNCHANGED <<presented, shown, results_shown>>

\* _play_quiz: self.vue.show_greetings(...)
ShowGreetings ==
    /\ pc = "greet"
    /\ called' = called \cup {"show_greetings"}
    /\ pc' = "ask_count"
    /\ UNCHANGED <<file, quiz, raised, exit_status, uncaught, errors_shown, loads, user_input,
                   questions_count, questions, idx, score, max_score, correct, user_answer,
                   user_set, result>>
    /\ UNCHANGED <<matched, validVars, authorVars>>
    /\ last_call' = "show_greetings"
    /\ UNCHANGED <<presented, shown, results_shown>>

\* questions_count = self.vue.ask_questions_count(default_count=...)
AskQuestionsCount ==
    /\ pc = "ask_count"
    /\ called' = called \cup {"ask_questions_count"}
    /\ questions_count' \in Counts
    /\ pc' = "select"
    /\ UNCHANGED <<file, quiz, raised, exit_status, uncaught, errors_shown, loads, user_input,
                   questions, idx, score, max_score, correct, user_answer, user_set, result>>
    /\ UNCHANGED <<matched, validVars, authorVars>>
    /\ last_call' = "ask_questions_count"
    /\ UNCHANGED <<presented, shown, results_shown>>

\* the maximum of the whole bank instead of the selected questions
SelectedMaxScoreOfBank(quiz_, selected) == max_score_of(quiz_)

\* sum(question.score for question in questions), the questions being distinct
SelectedMaxScore(quiz_, selected) ==
    SumScores(quiz_.questions_bank, {selected[i] : i \in 1..Len(selected)})

\* questions = self.quiz.get_questions(questions_count); score = 0;
\* max_score = sum(question.score for question in questions)
GetQuestions ==
    /\ pc = "select"
    /\ questions' \in get_questions(quiz, questions_count)
    /\ score' = 0
    /\ max_score' = SelectedMaxScore(quiz, questions')
    /\ idx' = 0
    /\ pc' = "loop"
    /\ UNCHANGED <<file, quiz, raised, exit_status, uncaught, called, errors_shown, loads,
                   user_input, questions_count, correct, user_answer, user_set, result>>
    /\ UNCHANGED <<matched, validVars, authorVars>>
    /\ UNCHANGED historyVars

\* the loop body up to get_user_answer's first statement: self.vue.clear();
\* answers = question.answers; random.shuffle(answers), which reorders the
\* question's own list; correct = set(...); self.vue.show_question(...);
\* user_answer = None.  The count typed at the prompt is not read again.
PresentQuestion ==
    /\ pc = "loop"
    /\ idx < Len(questions)
    /\ \E answers \in Shuffle(CurrentQuestion.answers) :
           /\ quiz' = [quiz EXCEPT !.questions_bank[CurrentKey].answers = answers]
           /\ correct' = CorrectIndices(answers)
           /\ shown' = [question_index |-> idx,
                        title |-> CurrentQuestion.title,
                        text |-> CurrentQuestion.text,
                        answers |-> [i \in 1..Len(answers) |-> answers[i].text],
                        correct_count |-> Cardinality(CorrectIndices(answers))]
    /\ called' = called \cup {"clear", "show_question"}
    /\ last_call' = "show_question"
    /\ presented' = Append(presented, CurrentKey)
    /\ UNCHANGED results_shown
    /\ user_answer' = None
    /\ user_input' = None
    /\ questions_count' = None
    /\ pc' = "ask"
    /\ UNCHANGED <<file, raised, exit_status, uncaught, errors_shown, loads, questions, idx,
                   score, max_score, user_set, result>>
    /\ UNCHANGED <<matched, validVars, authorVars>>

\* get_user_answer(len(answers), len(correct)): the validator's verdict on user_answer
Verdict == is_valid_answer(user_answer, Len(CurrentQuestion.answers), Cardinality(correct))

\* an `if` that converts whatever was typed: a rejected text raises ValueError
AskAnswerFatal ==
    /\ pc = "ask"
    /\ Verdict = "False"
    /\ IF user_answer = None
       THEN /\ called' = called \cup {"ask_answer"}
            /\ user_answer' \in AnswerInputs
            /\ last_call' = "ask_answer"
            /\ UNCHANGED <<pc, file, quiz, raised, exit_status, uncaught, errors_shown, loads,
                           user_input, questions_count, questions, idx, score, max_score,
                           correct, user_set, result, matched, presented, shown,
                           results_shown, validVars, authorVars>>
       ELSE /\ uncaught' = "ValueError"
            /\ exit_status' = 1
            /\ pc' = "crashed"
            /\ UNCHANGED <<file, quiz, raised, called, errors_shown, loads, user_input,
                           questions_count, questions, idx, score, max_score, correct,
                           user_answer, user_set, result, matched, historyVars, validVars,
                           authorVars>>

\* while not is_valid_answer(...): user_answer = self.vue.ask_answer()
AskAnswer ==
    /\ pc = "ask"
    /\ Verdict = "False"
    /\ called' = called \cup {"ask_answer"}
    /\ user_answer' \in AnswerInputs
    /\ UNCHANGED <<pc, file, quiz, raised, exit_status, uncaught, errors_shown, loads,
                   user_input, questions_count, questions, idx, score, max_score, correct,
                   user_set, result>>
    /\ UNCHANGED <<matched, validVars, authorVars>>
    /\ last_call' = "ask_answer"
    /\ UNCHANGED <<presented, shown, results_shown>>

\* an exception raised inside _play_quiz is caught nowhere: traceback, status 1
Crash(exc) ==
    /\ uncaught' = exc
    /\ exit_status' = 1
    /\ pc' = "crashed"
    /\ UNCHANGED <<file, quiz, raised, called, errors_shown, loads, user_input,
                   questions_count, questions, idx, score, max_score, correct, user_answer,
                   user_set, result>>
    /\ UNCHANGED <<matched, validVars, authorVars>>
    /\ UNCHANGED historyVars

\* re.match raises re.error for a pattern it cannot compile
ValidatorRaises ==
    /\ pc = "ask"
    /\ Verdict = "re.error"
    /\ Crash("re.error")

\* user_answer = set(int(value) - 1 for value in user_answer.split(",")); return
ReturnUserAnswer ==
    /\ pc = "ask"
    /\ Verdict = "True"
    /\ UserAnswerSet(user_answer).exc = "none"
    /\ user_set' = UserAnswerSet(user_answer).value
    /\ pc' = "compare"
    /\ UNCHANGED <<file, quiz, raised, exit_status, uncaught, called, errors_shown, loads,
                   user_input, questions_count, questions, idx, score, max_score, correct,
                   user_answer, result>>
    /\ UNCHANGED <<matched, validVars, authorVars>>
    /\ UNCHANGED historyVars

\* int(value) raises ValueError for an accepted string that is no list of numbers
ConversionRaises ==
    /\ pc = "ask"
    /\ Verdict = "True"
    /\ UserAnswerSet(user_answer).exc # "none"
    /\ Crash(UserAnswerSet(user_answer).exc)

\* a test that gives credit for part of the correct set
SetsMatchPartial(user, right) == user \subseteq right

\* the test user_answer == correct, on two sets
SetsMatch(user, right) == user = right

\* if user_answer == correct: score += question.score
ScoreAnswer ==
    /\ pc = "compare"
    /\ score' = IF SetsMatch(user_set, correct) THEN score + CurrentQuestion.score ELSE score
    /\ matched' = IF UserAnswerSet(user_answer).value = CorrectIndices(CurrentQuestion.answers)
                  THEN matched \cup {CurrentKey} ELSE matched
    /\ pc' = "pause"
    /\ UNCHANGED <<file, quiz, raised, exit_status, uncaught, called, errors_shown, loads,
                   user_input, questions_count, questions, idx, max_score, correct,
                   user_answer, user_set, result>>
    /\ UNCHANGED <<validVars, authorVars, historyVars>>

\* self.vue.pause(), and the loop goes to the next question: correct and
\* user_answer are assigned again before they are read
Pause ==
    /\ pc = "pause"
    /\ called' = called \cup {"pause"}
    /\ idx' = idx + 1
    /\ correct' = {}
    /\ user_answer' = None
    /\ user_set' = {}
    /\ pc' = "loop"
    /\ UNCHANGED <<file, quiz, raised, exit_status, uncaught, errors_shown, loads, user_input,
                   questions_count, questions, score, max_score, result>>
    /\ UNCHANGED <<matched, validVars, authorVars>>
    /\ last_call' = "pause"
    /\ UNCHANGED <<presented, shown, results_shown>>

\* show_result indented into the loop body: it is called before every question too
ShowResultInLoop ==
    /\ pc = "loop"
    /\ idx <= Len(questions)
    /\ called' = called \cup {"show_result"}
    /\ result' = [quiz_title |-> quiz.title, score |-> score, max_score |-> max_score]
    /\ last_call' = "show_result"
    /\ results_shown' = results_shown + 1
    /\ IF idx = Len(questions)
       THEN /\ pc' = "done"
            /\ exit_status' = 0
            /\ UNCHANGED <<user_input, questions_count, idx, correct>>
       ELSE \E answers \in Shuffle(CurrentQuestion.answers) :
                /\ pc' = "ask"
                /\ correct' = CorrectIndices(answers)
                /\ UNCHANGED <<exit_status, user_input, questions_count, idx>>
    /\ UNCHANGED <<file, quiz, raised, uncaught, errors_shown, loads, questions, score,
                   max_score, user_answer, user_set, matched, presented, shown, validVars,
                   authorVars>>

\* after the loop: self.vue.show_result(self.quiz.title, score, max_score); start
\* and main return and the process ends with status 0
ShowResult ==
    /\ pc = "loop"
    /\ idx = Len(questions)
    /\ called' = called \cup {"show_result"}
    /\ result' = [quiz_title |-> quiz.title, score |-> score, max_score |-> max_score]
    /\ user_input' = None
    /\ questions_count' = None
    /\ exit_status' = 0
    /\ pc' = "done"
    /\ UNCHANGED <<file, quiz, raised, uncaught, errors_shown, loads, questions, idx, score,
                   max_score, correct, user_answer, user_set>>
    /\ UNCHANGED <<matched, validVars, authorVars>>
    /\ last_call' = "show_result"
    /\ results_shown' = results_shown + 1
    /\ UNCHANGED <<presented, shown>>

PlayQuestions ==
    \/ GetQuestions
    \/ PresentQuestion
    \/ AskAnswer
    \/ ValidatorRaises
    \/ ReturnUserAnswer
    \/ ConversionRaises
    \/ ScoreAnswer
    \/ Pause
    \/ ShowResult

Next ==
    \/ Start
    \/ LoadQuiz
    \/ ShowErrorAndExit
    \/ ShowGreetings
    \/ AskQuestionsCount
    \/ PlayQuestions

Spec == Init /\ [][Next]_vars

(***************************************************************************)
(* main.py: main installs signal_handler for SIGINT before it builds the    *)
(* controller, so the handler is in place in every state of a run.         *)
(***************************************************************************)
\* the positions of a run at which the process is alive
Alive == {"start", "load", "except", "greet", "ask_count", "select", "loop", "ask", "compare",
          "pause"}

\* a handler that lets the session report what was scored so far before it leaves
signal_handler_reporting ==
    /\ pc \in Alive
    /\ pc' = "interrupted"
    /\ exit_status' = 0
    /\ called' = called \cup {"show_result"}
    /\ results_shown' = results_shown + 1
    /\ last_call' = "show_result"
    /\ UNCHANGED <<file, quiz, raised, uncaught, errors_shown, loads, user_input,
                   questions_count, questions, idx, score, max_score, correct, user_answer,
                   user_set, result, matched, presented, shown, validVars, authorVars>>

\* signal_handler(sig, frame): sys.exit(0) raises SystemExit where the run is; no
\* except clause of the program catches it, and the process ends with status 0
signal_handler ==
    /\ pc \in Alive
    /\ pc' = "interrupted"
    /\ exit_status' = 0
    /\ UNCHANGED <<file, quiz, raised, uncaught, called, errors_shown, loads, user_input,
                   questions_count, questions, idx, score, max_score, correct, user_answer,
                   user_set, result, matched, historyVars, validVars, authorVars>>

\* a run during which SIGINT may arrive
NextSignal == Next \/ signal_handler

SpecSignal == Init /\ [][NextSignal]_vars

(***************************************************************************)
(* controller.py: the single-module variant of the controller.  Its start  *)
(* reads the question count as text and leaves with exit() on a load       *)
(* error; the loop over the questions is the one of _play_quiz.            *)
(***************************************************************************)
\* characters for which str.isdigit() is true and that int() does not read: the
\* superscript digits, here U+00B2
OtherDigits == {"SUPERSCRIPT TWO"}

\* str.isdigit(): every character is a digit, decimal or not, and there is one
isdigit(s) == s # <<>> /\ \A i \in 1..Len(s) : IsDigit(s[i]) \/ s[i] \in OtherDigits

\* what the count prompt can return, as text
CountAlphabet == {DigitChars[i + 1] : i \in 0..(MaxQuestions + 1)} \cup {"x"} \cup OtherDigits

CountInputs == StringsUpTo(CountAlphabet, MaxCountLen)

\* QuizController.is_valid_input_count(text_input)
is_valid_input_count(text_input) ==
    IF text_input = None THEN FALSE
    ELSE isdigit(text_input) \/ text_input = <<>>

\* start: filepath = self.vue.ask_file_path(); the path is resolved
StartModule ==
    /\ pc = "start"
    /\ called' = called \cup {"ask_file_path"}
    /\ pc' = "load"
    /\ UNCHANGED <<file, quiz, raised, exit_status, uncaught, errors_shown, loads, user_input,
                   questions_count, questions, idx, score, max_score, correct, user_answer,
                   user_set, result>>
    /\ UNCHANGED <<matched, validVars, authorVars>>
    /\ last_call' = "ask_file_path"
    /\ UNCHANGED <<presented, shown, results_shown>>

LoadQuizModule ==
    /\ pc = "load"
    /\ Loaded(load_quiz_module(file))

\* except QuizzError as err: self.vue.show_error(err); exit(), and exit() without
\* an argument ends the process with status 0
ShowErrorAndExitModule ==
    /\ pc = "except"
    /\ called' = called \cup {"show_error"}
    /\ errors_shown' = errors_shown + 1
    /\ exit_status' = 0
    /\ pc' = "exited"
    /\ UNCHANGED <<file, quiz, raised, uncaught, loads, user_input, questions_count,
                   questions, idx, score, max_score, correct, user_answer, user_set, result>>
    /\ UNCHANGED <<matched, validVars, authorVars>>
    /\ last_call' = "show_error"
    /\ UNCHANGED <<presented, shown, results_shown>>

\* while not is_valid_input_count(user_input):
\*     user_input = self.vue.ask_questions_count(self.quiz.questions_count)
AskQuestionsCountModule ==
    /\ pc = "ask_count"
    /\ ~is_valid_input_count(user_input)
    /\ called' = called \cup {"ask_questions_count"}
    /\ user_input' \in CountInputs
    /\ UNCHANGED <<pc, file, quiz, raised, exit_status, uncaught, errors_shown, loads,
                   questions_count, questions, idx, score, max_score, correct, user_answer,
                   user_set, result>>
    /\ UNCHANGED <<matched, validVars, authorVars>>
    /\ last_call' = "ask_questions_count"
    /\ UNCHANGED <<presented, shown, results_shown>>

\* questions_count = int(user_input) if user_input else self.quiz.questions_count
DefaultQuestionsCount ==
    /\ pc = "ask_count"
    /\ is_valid_input_count(user_input)
    /\ user_input # <<>> => int(user_input).exc = "none"
    /\ questions_count' = IF user_input # <<>> THEN int(user_input).value
                          ELSE questions_count_of(quiz)
    /\ pc' = "select"
    /\ UNCHANGED <<file, quiz, raised, exit_status, uncaught, called, errors_shown, loads,
                   user_input, questions, idx, score, max_score, correct, user_answer,
                   user_set, result>>
    /\ UNCHANGED <<matched, validVars, authorVars>>
    /\ UNCHANGED historyVars

\* int(user_input) raises ValueError for a text isdigit() takes and int() does
\* not read; nothing in start catches it
CountConversionRaises ==
    /\ pc = "ask_count"
    /\ is_valid_input_count(user_input)
    /\ user_input # <<>>
    /\ int(user_input).exc # "none"
    /\ Crash(int(user_input).exc)

NextModule ==
    \/ StartModule
    \/ LoadQuizModule
    \/ ShowErrorAndExitModule
    \/ ShowGreetings
    \/ AskQuestionsCountModule
    \/ DefaultQuestionsCount
    \/ CountConversionRaises
    \/ PlayQuestions

SpecModule == Init /\ [][NextModule]_vars

(***************************************************************************)
(* model.py used as a library: a Question is built with Question(...) or a *)
(* Quiz with Quiz.from_dict(...), and then edited through its methods.     *)
(***************************************************************************)
\* the title or description assigned through a setter
Texts == {<<"Q", "t">>}

\* one keyword
Keywords == {<<"A">>, <<"a">>, <<"b">>}

\* the lists of keywords given to add_keywords, delete_keywords, set_keywords
KeywordLists == SequencesUpTo(Keywords, MaxKeywords)

\* the texts of the answers
AnswerTexts == {<<"x">>, <<"y">>}

\* the answer indices given to delete_answer_by_index and update_answer
Indices == (0 - MaxAnswers)..MaxAnswers

\* the scores given to the setter and to add_question
AuthorScores == (0 - 1)..MaxScore

\* the unique_id given to add_question and delete_question: None, a chosen
\* identifier, or one that uuid4 generated
GivenIds == {<<"id", 1>>}

\* the arguments of Question(...)
QuestionArguments ==
    {[title |-> <<"Q", "t">>, text |-> <<"T", "x">>, keywords |-> kw, score |-> sc, answers |-> an] :
        kw \in {<< <<"B">>, <<"a">> >>},
        sc \in {MaxScore},
        an \in {<<>>, <<[text |-> <<"x">>, correct |-> TRUE]>>}}

\* the records given to Quiz.from_dict: every field present, scores not negative
QuizRecords ==
    {[title |-> <<"Q", "t">>, author |-> <<"A">>, description |-> <<"T", "x">>, questions |-> qs] :
        qs \in SequencesUpTo(
                  {[title |-> <<"Q", "t">>, text |-> <<"T", "x">>, keywords |-> <<>>, score |-> sc,
                    answers |-> <<[text |-> <<"x">>, correct |-> TRUE]>>] : sc \in 0..MaxScore},
                  MaxQuestions - 1)}

InitAuthor ==
    /\ SessionIdle
    /\ ValidIdle
    /\ record \in {[class |-> "Question", args |-> a] : a \in QuestionArguments}
                    \cup {[class |-> "Quiz", args |-> d] : d \in QuizRecords}
    /\ edited = NoObject
    /\ authored = NoObject
    /\ op = NoOp
    /\ error = "none"
    /\ uuids = 0
    /\ QuizzIdle

\* question = Question(**record.args)
NewQuestion ==
    /\ record.class = "Question"
    /\ op = NoOp
    /\ edited' = Question(record.args, uuids + 1).value
    /\ error' = Question(record.args, uuids + 1).exc
    /\ uuids' = uuids + 1
    /\ op' = [name |-> "Question", arg |-> <<>>]
    /\ UNCHANGED <<record, authored, quizzVars, sessionVars, validVars>>

\* quiz = Quiz.from_dict(record.args)
QuizFromDict ==
    /\ record.class = "Quiz"
    /\ op = NoOp
    /\ authored' = Quiz_from_dict(record.args).value
    /\ error' = Quiz_from_dict(record.args).exc
    /\ uuids' = Len(record.args.questions)
    /\ op' = [name |-> "from_dict", arg |-> <<>>]
    /\ UNCHANGED <<record, edited, quizzVars, sessionVars, validVars>>

\* a method of the Question was called and gave r; arg keeps the score or the
\* index the call was given
EditQuestion(name, arg, r) ==
    /\ edited # NoObject
    /\ edited' = r.value
    /\ error' = r.exc
    /\ op' = [name |-> name, arg |-> arg]
    /\ UNCHANGED <<record, authored, uuids, quizzVars, sessionVars, validVars>>

\* question.score = v
SetScore == \E v \in AuthorScores : EditQuestion("score", <<v>>, Question_score(edited, v))

\* question.title = t
SetTitle == \E t \in Texts : EditQuestion("title", <<>>, Question_title(edited, t))

AddAnswer ==
    /\ edited # NoObject
    /\ Len(edited.answers) < MaxAnswers
    /\ \E b \in BOOLEAN :
           EditQuestion("add_answer", <<>>, add_answer(edited, <<"y">>, b))

DeleteAnswerByIndex ==
    \E i \in Indices :
        EditQuestion("delete_answer_by_index", <<i>>, delete_answer_by_index(edited, i))

UpdateAnswer ==
    \E i \in Indices, t \in {None, <<"y">>}, b \in {"None", "True", "False"} :
        EditQuestion("update_answer", <<i>>, update_answer(edited, i, t, b))

AddKeywords ==
    \E k \in KeywordLists : EditQuestion("add_keywords", <<>>, add_keywords(edited, k))

DeleteKeywords ==
    \E k \in KeywordLists : EditQuestion("delete_keywords", <<>>, delete_keywords(edited, k))

PurgeKeywords == EditQuestion("purge_keywords", <<>>, purge_keywords(edited))

SetKeywords ==
    \E k \in KeywordLists : EditQuestion("set_keywords", <<>>, set_keywords(edited, k))

\* a method of the Quiz was called and gave r, n identifiers generated so far; arg
\* keeps the score and the identifier the call was given
EditQuiz(name, arg, r, n) ==
    /\ authored # NoObject
    /\ authored' = r.value
    /\ error' = r.exc
    /\ op' = [name |-> name, arg |-> arg]
    /\ uuids' = n
    /\ UNCHANGED <<record, edited, quizzVars, sessionVars, validVars>>

\* quiz.title = t
SetQuizTitle == \E t \in Texts : EditQuiz("title", <<>>, Quiz_title(authored, t), uuids)

\* quiz.description = t
SetQuizDescription ==
    \E t \in Texts : EditQuiz("description", <<>>, Quiz_description(authored, t), uuids)

\* quiz.add_question(title, text, keywords, score, answers, unique_id)
AddQuestion ==
    \E sc \in AuthorScores, u \in {None} \cup GivenIds :
        LET kwargs == [title |-> <<"Q", "t">>, text |-> <<"T", "x">>, keywords |-> <<>>,
                       score |-> sc, answers |-> <<>>, unique_id |-> u]
        IN  /\ u = None => uuids < MaxUuids
            /\ EditQuiz("add_question", <<sc, u>>, add_question(authored, kwargs, uuids + 1),
                        IF u = None THEN uuids + 1 ELSE uuids)

\* quiz.delete_question(unique_id)
DeleteQuestion ==
    \E u \in GivenIds \cup {uuid4(n) : n \in 1..MaxUuids} :
        EditQuiz("delete_question", <<u>>, delete_question(authored, u), uuids)

NextAuthor ==
    \/ NewQuestion
    \/ SetScore
    \/ SetTitle
    \/ AddAnswer
    \/ DeleteAnswerByIndex
    \/ UpdateAnswer
    \/ AddKeywords
    \/ DeleteKeywords
    \/ PurgeKeywords
    \/ SetKeywords
    \/ QuizFromDict
    \/ SetQuizTitle
    \/ SetQuizDescription
    \/ AddQuestion
    \/ DeleteQuestion

SpecAuthor == InitAuthor /\ [][NextAuthor]_vars

(***************************************************************************)
(* sdjquizz/components: the Quizz that loads its questions from YAML files. *)
(* A Quizz is built and load is called on it with one file after another.  *)
(***************************************************************************)
\* the titles of the loaded documents
QuizzTitles == {<<"Q">>, <<"T">>}

\* a question of a document with every key get_question needs
QuizzQuestion(score_, type_) ==
    [title |-> <<"t">>, text |-> <<"x">>, answers |-> <<[text |-> <<"a">>, valid |-> TRUE]>>,
     keywords |-> <<>>, score |-> score_, type |-> type_]

WellFormedQuizzQuestions == {QuizzQuestion(1, "single"), QuizzQuestion(MaxScore + 1, "multi")}

\* a key is missing, or the type is none of QuestionType
MalformedQuizzQuestions ==
    {Without(QuizzQuestion(1, "single"), "answers"),
     Without(QuizzQuestion(1, "single"), "type"),
     Without(QuizzQuestion(1, "single"), "score"),
     QuizzQuestion(1, "open")}

\* what yaml.load gives for a readable YAML file: a mapping, with or without
\* the key "questions"
QuizzDocuments ==
    LET whole == {[title |-> t, questions |-> qs] :
                     t \in QuizzTitles,
                     qs \in SequencesUpTo(WellFormedQuizzQuestions \cup MalformedQuizzQuestions,
                                          MaxQuestions)}
    IN  whole \cup {Without(d, "questions") : d \in whole}

\* what is at the path given to load
QuizzFiles ==
    {[state |-> st, data |-> NoObject] :
        st \in {"missing", "unreadable", "directory", "not_yaml", "empty"}}
        \cup {[state |-> "readable", data |-> d] : d \in QuizzDocuments}

\* load_from_file(filepath): the content of the file, None for the three
\* exceptions it catches and for a file yaml.load finds empty; open raises
\* IsADirectoryError for a directory
load_from_file(f) ==
    CASE f.state = "directory" -> [exc |-> "IsADirectoryError", value |-> NoObject]
      [] f.state \in {"missing", "unreadable", "not_yaml", "empty"} ->
             [exc |-> "none", value |-> NoObject]
      [] OTHER -> [exc |-> "none", value |-> f.data]

\* QuestionType(value)
QuestionTypes == {"single", "multi"}

\* get_question(**kwargs): SingleChoiceQuestion or MultipleChoiceQuestion built
\* from the keyword arguments left once "type" is popped
get_question(kwargs) ==
    CASE "type" \notin DOMAIN kwargs -> [exc |-> "KeyError", value |-> NoObject]
      [] kwargs.type \notin QuestionTypes -> [exc |-> "ValueError", value |-> NoObject]
      [] DOMAIN kwargs # {"title", "text", "answers", "keywords", "score", "type"} ->
             [exc |-> "TypeError", value |-> NoObject]
      [] OTHER -> [exc |-> "none", value |-> kwargs]

\* Quizz(shuffle_questions)
NewQuizz(shuffle_questions) ==
    [meta |-> <<>>, questions |-> <<>>, shuffle_questions |-> shuffle_questions,
     max_score |-> 0]

\* sum(question.score for question in questions)
RECURSIVE SumOfScores(_)
SumOfScores(qs) == IF qs = <<>> THEN 0 ELSE qs[1].score + SumOfScores(Tail(qs))

\* q.pop("answers") and get_question(answers=answers, **q) for one question
BuildQuestion(q) ==
    IF "answers" \notin DOMAIN q
    THEN [exc |-> "KeyError", value |-> NoObject]
    ELSE get_question(q)

\* Quizz.load(filepath): the outcomes of one call on the Quizz z, each with the
\* exception raised ("none" when the call returned), the Quizz after the call
\* and the value returned
Quizz_load(z, f) ==
    LET data == load_from_file(f)
    IN  IF data.exc # "none"
        THEN {[exc |-> data.exc, value |-> z, returned |-> None]}
        ELSE IF data.value = NoObject
        THEN {[exc |-> "UnableToLoadQuizz", value |-> z, returned |-> None]}
        ELSE IF "questions" \notin DOMAIN data.value
        THEN {[exc |-> "KeyError", value |-> z, returned |-> None]}
        ELSE LET qs == data.value.questions
                 bad == {i \in 1..Len(qs) : BuildQuestion(qs[i]).exc # "none"}
                 built == IF bad = {} THEN Len(qs)
                          ELSE (CHOOSE i \in bad : \A j \in bad : i <= j) - 1
                 held == z.questions \o [i \in 1..built |-> BuildQuestion(qs[i]).value]
                 loaded == [z EXCEPT !.meta = Without(data.value, "questions"),
                                     !.questions = held]
             IN  IF bad # {}
                 THEN {[exc |-> BuildQuestion(qs[built + 1]).exc, value |-> loaded,
                        returned |-> None]}
                 ELSE {[exc |-> "none",
                        value |-> [loaded EXCEPT !.questions = p,
                                                 !.max_score = SumOfScores(p)],
                        returned |-> Len(p)] :
                          p \in IF z.shuffle_questions THEN Shuffle(held) ELSE {held}}

InitQuizz ==
    /\ SessionIdle
    /\ ValidIdle
    /\ record = NoObject
    /\ edited = NoObject
    /\ authored = NoObject
    /\ op = NoOp
    /\ error = "none"
    /\ uuids = 0
    /\ quizz \in {NewQuizz(b) : b \in BOOLEAN}
    /\ returned = None

\* quizz.load(filepath), the file at the path being f; op keeps the file
Load ==
    /\ Len(quizz.questions) < MaxHeld
    /\ \E f \in QuizzFiles :
           \E r \in Quizz_load(quizz, f) :
               /\ quizz' = r.value
               /\ returned' = r.returned
               /\ error' = r.exc
               /\ op' = [name |-> "load", arg |-> <<f>>]
    /\ UNCHANGED <<record, edited, authored, uuids, sessionVars, validVars>>

NextQuizz == Load

SpecQuizz == InitQuizz /\ [][NextQuizz]_vars

(***************************************************************************)
(* Properties.                                                             *)
(***************************************************************************)
BankKeys == DOMAIN quiz.questions_bank

Range(seq) == {seq[i] : i \in 1..Len(seq)}

\* get_questions has just returned and no question was presented yet: the
\* requested count is still in questions_count
JustSelected == pc = "loop" /\ idx = 0

\* C1: the step that scores a question adds the question's score to the running
\* total when the set of indices read from the user's text equals the set of
\* positions, in the shuffled order, of the correct answers, and leaves the
\* running total as it is for any other set (no partial credit).
C1_ExactMatchScores ==
    [][pc = "compare" =>
          LET given == UserAnswerSet(user_answer).value
              right == CorrectIndices(CurrentQuestion.answers)
          IN  /\ given = right => score' = score + CurrentQuestion.score
              /\ given # right => score' = score]_vars

\* the first question was answered with its exact set and credited, the second
\* with a strict subset of its correct set and not credited
C1_Witness ==
    /\ pc = "pause"
    /\ idx = 1
    /\ user_set # correct
    /\ user_set \subseteq correct
    /\ CurrentQuestion.score # 0
    /\ matched = {questions[1]}
    /\ score = quiz.questions_bank[questions[1]].score
    /\ score # 0

\* C2: for a count n with 1 <= n <= questions_count, get_questions(n) gives
\* exactly n questions, pairwise distinct, all of them in the bank.
C2_SampleOfCount ==
    JustSelected /\ 1 <= questions_count /\ questions_count <= questions_count_of(quiz) =>
        /\ Len(questions) = questions_count
        /\ \A i, j \in 1..Len(questions) : i # j => questions[i] # questions[j]
        /\ Range(questions) \subseteq BankKeys

\* one question asked of a bank of two
C2_Witness ==
    /\ JustSelected
    /\ questions_count = 1
    /\ questions_count_of(quiz) = 2
    /\ Len(questions) = 1

\* C3: for a count n with n < 1 or n > questions_count (the empty bank
\* included), get_questions(n) raises nothing and gives every question of the
\* bank exactly once.
C3_WholeBankOutOfRange ==
    /\ pc = "select" /\ (questions_count < 1 \/ questions_count > questions_count_of(quiz)) =>
           get_questions(quiz, questions_count) # {}
    /\ JustSelected /\ (questions_count < 1 \/ questions_count > questions_count_of(quiz)) =>
           /\ Len(questions) = questions_count_of(quiz)
           /\ Range(questions) = BankKeys
           /\ \A i, j \in 1..Len(questions) : i # j => questions[i] # questions[j]

\* more questions asked than a bank of two holds
C3_Witness ==
    /\ JustSelected
    /\ questions_count > questions_count_of(quiz)
    /\ questions_count_of(quiz) = 2
    /\ Len(questions) = 2

\* C4: at the end of a session show_result has the quiz title, the sum of the
\* scores of the presented questions whose answer matched, and the sum of the
\* scores of the presented questions; when the whole bank was presented and every
\* question matched, both sums are the quiz's max_score.
C4_ReportedResult ==
    pc = "done" =>
        /\ result.quiz_title = quiz.title
        /\ result.score = SumScores(quiz.questions_bank, matched)
        /\ result.max_score = SumScores(quiz.questions_bank, Range(questions))
        /\ matched \subseteq Range(questions)
        /\ Range(questions) = BankKeys /\ matched = BankKeys =>
               /\ result.score = result.max_score
               /\ result.max_score = max_score_of(quiz)

\* a bank of two questions, both presented and both answered with the exact set
C4_Witness ==
    /\ pc = "done"
    /\ Len(questions) = 2
    /\ matched = BankKeys
    /\ result.score = 2
    /\ result.max_score = 2

\* the comma-separated tokens of the validator's text
Tokens == Split(text_string, ",")

\* token is a number between 1 and m
NumberInRange(token, m) ==
    /\ int(token).exc = "none"
    /\ 1 <= int(token).value
    /\ int(token).value <= m

\* C5: for m >= 1 displayed answers (m >= 10 included) and k >= 1, a string
\* is_valid_answer accepts consists of tokens that are numbers between 1 and m.
C5_AcceptedTokensInRange ==
    valid = "True" /\ max_index >= 1 /\ values >= 1 =>
        \A i \in 1..Len(Tokens) : NumberInRange(Tokens[i], max_index)

\* text is k tokens, each the decimal numeral of a number between 1 and m
IsSelection(text, m, k) ==
    /\ text # None
    /\ Len(Split(text, ",")) = k
    /\ \A i \in 1..k : \E n \in 1..m : Split(text, ",")[i] = Str(n)

\* C6: for k >= 1, is_valid_answer accepts a string exactly when it is k
\* comma-separated tokens each between 1 and m: it accepts every such string,
\* and rejects None, a wrong number of tokens, a token out of range or not a
\* number, a leading or trailing comma, and for k = 1 any string with a comma.
C6_AcceptsExactlySelections ==
    valid # "unchecked" /\ max_index >= 1 /\ values >= 1 =>
        /\ IsSelection(text_string, max_index, values) => valid = "True"
        /\ valid = "True" =>
               /\ text_string # None
               /\ Len(Tokens) = values
               /\ \A i \in 1..Len(Tokens) : NumberInRange(Tokens[i], max_index)
               /\ values = 1 => \A i \in 1..Len(text_string) : text_string[i] # ","

\* C7: the validator rejects the empty string when the required count is at
\* least 1 and accepts it when the required count is 0.
C7_EmptyString ==
    valid # "unchecked" /\ text_string = <<>> /\ values <= max_index =>
        /\ values >= 1 => valid = "False"
        /\ values = 0 => valid = "True"

\* the methods of the vue a session calls after a successful load
SessionCalls ==
    {"show_greetings", "ask_questions_count", "show_question", "ask_answer", "show_result"}

\* C8: when load_quiz fails, start calls show_error exactly once, calls none of
\* show_greetings, ask_questions_count, show_question, ask_answer and
\* show_result, does not load again, and ends the process with a status other
\* than 0.
C8_LoadFailureAborts ==
    raised # "none" =>
        /\ loads = 1
        /\ called \cap SessionCalls = {}
        /\ pc \in {"except", "exited", "crashed"}
        /\ pc \in {"exited", "crashed"} => errors_shown = 1 /\ exit_status # 0

\* a question record missing a required field, carrying an unknown field, or
\* with a negative score
DefectiveQuestion(q) ==
    \/ ~(QuestionRequired \subseteq DOMAIN q)
    \/ ~(DOMAIN q \subseteq QuestionKeywords)
    \/ "score" \in DOMAIN q /\ q.score < 0

\* the loading-time failures: the file is missing, unreadable or not parseable,
\* the document has no `questions` key, or a question record is defective
LoadingFailure(f) ==
    \/ f.state # "readable"
    \/ /\ f.data # NoObject
       /\ \/ "questions" \notin DOMAIN f.data
          \/ \E i \in 1..Len(f.data.questions) : DefectiveQuestion(f.data.questions[i])

\* C9: every loading-time failure leaves load_quiz as QuizzError, never as
\* another exception, and leaves self.quiz unset.
C9_LoadFailuresUnified ==
    loads = 1 /\ LoadingFailure(file) => raised = "QuizzError" /\ quiz = NoObject

\* a quiz record with a required field of the quiz or of a question missing,
\* a negative score, or another malformation
MalformedRecord(d) ==
    /\ d # NoObject
    /\ \/ ~(QuizRequired \cup {"questions"} \subseteq DOMAIN d)
       \/ ~(DOMAIN d \subseteq QuizKeywords)
       \/ /\ "questions" \in DOMAIN d
          /\ \E i \in 1..Len(d.questions) :
                 \/ DefectiveQuestion(d.questions[i])
                 \/ /\ "answers" \in DOMAIN d.questions[i]
                    /\ \E j \in 1..Len(d.questions[i].answers) :
                           Answer(d.questions[i].answers[j]).exc # "none"

\* C10: Quiz.from_dict fails with QuizzError on a malformed record, and never
\* returns a Quiz holding a question with a negative score.
C10_FromDictValidates ==
    loads = 1 /\ file.state = "readable" =>
        /\ MalformedRecord(file.data) => Quiz_from_dict(file.data).exc = "QuizzError"
        /\ quiz # NoObject => \A u \in BankKeys : quiz.questions_bank[u].score >= 0

\* the validator rejects the text typed at the answer prompt
Rejected == pc = "ask" /\ user_answer # None /\ Verdict = "False"

\* C13: an input the validator rejects is not fatal: the step that follows it is
\* another call of ask_answer for the same question, the session does not end,
\* no question is presented or skipped and the running score is unchanged; the
\* step does not depend on how many inputs were rejected before.
C13_RejectedInputRetries ==
    [][Rejected =>
          /\ pc' = "ask"
          /\ uncaught' = "none"
          /\ last_call' = "ask_answer"
          /\ user_answer' \in AnswerInputs
          /\ idx' = idx
          /\ questions' = questions
          /\ presented' = presented
          /\ score' = score]_vars

\* a text was typed for a question with answers and was rejected
C13_Witness ==
    /\ Rejected
    /\ last_call = "ask_answer"
    /\ Len(CurrentQuestion.answers) > 0
    /\ user_answer # <<>>

\* the sequence b is a reordering of the sequence a
IsPermutation(a, b) ==
    /\ Len(a) = Len(b)
    /\ \E p \in [1..Len(a) -> 1..Len(a)] :
           /\ \A i, j \in 1..Len(a) : i # j => p[i] # p[j]
           /\ \A i \in 1..Len(a) : b[i] = a[p[i]]

\* the accepted texts whose comma-separated values are those of text_string in
\* another order (or the same)
Reorderings ==
    {other \in ValidatorInputs \ {None} :
        /\ IsPermutation(Split(text_string, ","), Split(other, ","))
        /\ is_valid_answer(other, max_index, values) = "True"}

\* C17: scoring does not depend on the order the indices are typed in: when an
\* accepted text was converted, every accepted text made of the same values in
\* another order is converted to the same set of indices, and matches any set
\* of correct indices exactly when the first text does.
C17_OrderIndependent ==
    (valid = "True" /\ converted # Unconverted) =>
        \A other \in Reorderings :
            /\ UserAnswerSet(other) = converted
            /\ \A right \in SUBSET (0..(max_index - 1)) :
                   SetsMatch(UserAnswerSet(other).value, right) = SetsMatch(converted.value, right)

\* two values typed in one order were converted, and the other order is accepted too
C17_Witness ==
    /\ valid = "True"
    /\ converted.exc = "none"
    /\ Cardinality(converted.value) = 2
    /\ \E other \in Reorderings : other # text_string

\* the calls on self.vue that may follow one another, clear() left aside
Follows ==
    { <<"none", "ask_file_path">>,
      <<"ask_file_path", "show_greetings">>,
      <<"show_greetings", "ask_questions_count">>,
      <<"ask_questions_count", "show_question">>,
      <<"ask_questions_count", "show_result">>,
      <<"show_question", "ask_answer">>,
      <<"ask_answer", "ask_answer">>,
      <<"ask_answer", "pause">>,
      <<"pause", "show_question">>,
      <<"pause", "show_result">> }

\* C18: in a run whose load succeeded the calls on the presentation adapter come
\* in the order ask_file_path, show_greetings, ask_questions_count, then for
\* each selected question show_question, ask_answer one or more times, pause;
\* the questions are presented in the order get_questions returned them, each
\* once; show_result is called once, after all of them, and nothing is called
\* after it.
C18_CallOrder ==
    [][raised' = "none" =>
          /\ last_call' # last_call => <<last_call, last_call'>> \in Follows
          /\ presented' # presented =>
                 /\ last_call \in {"ask_questions_count", "pause"}
                 /\ last_call' = "show_question"
                 /\ Len(presented) < Len(questions)
                 /\ presented' = Append(presented, questions[Len(presented) + 1])
          /\ results_shown' # results_shown =>
                 /\ last_call' = "show_result"
                 /\ results_shown' = 1
                 /\ presented = questions
          /\ results_shown = 1 => UNCHANGED <<last_call, presented, results_shown>>
          /\ called' # called => last_call' # "none"]_vars

\* a session over two questions came to its end
C18_Witness ==
    /\ pc = "done"
    /\ Len(questions) = 2
    /\ presented = questions
    /\ results_shown = 1
    /\ last_call = "show_result"
    /\ {"ask_file_path", "show_greetings", "ask_questions_count", "show_question",
        "ask_answer", "pause", "show_result"} \subseteq called

\* the answers of the question stored under key u as the quiz file lists them:
\* the key of the n-th question of the document is the n-th identifier generated
AuthoredAnswers(u) == Question_from_dict(file.data.questions[u[2]], u[2]).value.answers

\* C19: a session leaves the order of every question's answers as it was
\* authored: after the session the answers read from the model are, for every
\* question of the quiz, the sequence the quiz was loaded with.
C19_AnswersOrderKept ==
    pc = "done" =>
        \A u \in BankKeys : quiz.questions_bank[u].answers = AuthoredAnswers(u)

\* a question is on display: show_question was called for it and pause was not yet
OnDisplay == pc \in {"ask", "compare", "pause"}

\* C20: for the question on display, the texts passed to show_question are the
\* texts of the question's answers in some order, none added or lost; correct is
\* the set of positions, counted from 0 in the displayed order, of the answers
\* that are correct; and the correct_count passed to show_question and to
\* get_user_answer is the number of correct answers of the question as authored.
C20_ShownQuestion ==
    OnDisplay =>
        LET original == AuthoredAnswers(CurrentKey)
            displayed == CurrentQuestion.answers
            count == Cardinality({i \in 1..Len(original) : original[i].correct})
        IN  /\ IsPermutation(original, displayed)
            /\ shown.answers = [i \in 1..Len(displayed) |-> displayed[i].text]
            /\ IsPermutation([i \in 1..Len(original) |-> original[i].text], shown.answers)
            /\ correct = {i \in 0..(Len(displayed) - 1) : displayed[i + 1].correct}
            /\ shown.correct_count = count
            /\ Cardinality(correct) = count
            /\ shown.question_index = idx
            /\ presented[Len(presented)] = CurrentKey

\* a question with a correct and a wrong answer is displayed in the other order
C20_Witness ==
    /\ pc = "ask"
    /\ Len(shown.answers) = 2
    /\ shown.correct_count = 1
    /\ correct = {1}
    /\ AuthoredAnswers(CurrentKey)[1].correct
    /\ CurrentQuestion.answers # AuthoredAnswers(CurrentKey)

\* C11: an assignment of a negative value to Question.score raises ValueError
\* and leaves the question, its score included, as it was before; an assignment
\* of a value >= 0 raises nothing and sets the score to that value.
C11_ScoreAssignment ==
    [][op'.name = "score" =>
          LET v == op'.arg[1]
          IN  /\ v < 0 => error' = "ValueError" /\ edited'.score = edited.score /\ edited' = edited
              /\ v >= 0 => error' = "none" /\ edited'.score = v]_vars

\* a negative score was assigned to a question whose score is not negative
C11_Witness ==
    /\ op.name = "score"
    /\ op.arg[1] < 0
    /\ error = "ValueError"
    /\ edited.score >= 0

\* the text s is in lowercase
IsLower(s) == s = lower(s)

\* C12: the title and the description read from a Quiz, and the title read from
\* a Question, are in lowercase, whether Quiz.from_dict or Question(...) built
\* the object or a setter assigned them.
C12_TitlesLowercase ==
    /\ authored # NoObject =>
           /\ IsLower(authored.title)
           /\ IsLower(authored.description)
           /\ \A u \in DOMAIN authored.questions_bank : IsLower(authored.questions_bank[u].title)
    /\ edited # NoObject => IsLower(edited.title)

\* the methods that change the keywords of a Question
KeywordMethods == {"set_keywords", "add_keywords", "delete_keywords", "purge_keywords"}

\* C14: once set_keywords, add_keywords, delete_keywords or purge_keywords was
\* called on a Question, its keywords are all in lowercase, in ascending order
\* and without duplicates.
C14_KeywordsNormalised ==
    op.name \in KeywordMethods =>
        LET k == edited.keywords
        IN  /\ \A i \in 1..Len(k) : IsLower(k[i])
            /\ \A i, j \in 1..Len(k) : i < j => StrLess(k[i], k[j])

\* every key of the bank of z is the unique_id of the question stored under it
KeysAreIds(z) == \A u \in DOMAIN z.questions_bank : z.questions_bank[u].unique_id = u

\* C15: after Quiz.from_dict and after every add_question and delete_question,
\* every key of the bank is the unique_id of its question, questions_count is
\* the number of entries and max_score the sum of their scores (0 for an empty
\* bank): a question added under a new key adds one entry and its score, one
\* added under a key of the bank replaces that entry, and a deletion removes
\* one entry and its score.
C15_BankInvariants ==
    [][authored' # NoObject =>
          LET bank == authored'.questions_bank
          IN  /\ KeysAreIds(authored')
              /\ questions_count_of(authored') = Cardinality(DOMAIN bank)
              /\ max_score_of(authored') = SumScores(bank, DOMAIN bank)
              /\ DOMAIN bank = {} =>
                     questions_count_of(authored') = 0 /\ max_score_of(authored') = 0
              /\ (op'.name = "add_question" /\ error' = "none") =>
                     LET new == DOMAIN bank \ DOMAIN authored.questions_bank
                         old == max_score_of(authored)
                     IN  /\ Cardinality(new) <= 1
                         /\ questions_count_of(authored') =
                                questions_count_of(authored) + Cardinality(new)
                         /\ \A u \in new : max_score_of(authored') = old + bank[u].score
                         /\ \A u \in new : bank[u].score = op'.arg[1]
                         /\ new = {} =>
                                max_score_of(authored') =
                                    old - authored.questions_bank[op'.arg[2]].score + op'.arg[1]
              /\ (op'.name = "delete_question" /\ error' = "none") =>
                     /\ questions_count_of(authored') = questions_count_of(authored) - 1
                     /\ max_score_of(authored') =
                            max_score_of(authored) - authored.questions_bank[op'.arg[1]].score]_vars

\* a question was deleted from a bank that add_question filled under a generated
\* identifier and under a chosen one
C15_Witness ==
    /\ authored # NoObject
    /\ op.name = "delete_question"
    /\ error = "none"
    /\ uuids >= 2
    /\ GivenIds \subseteq DOMAIN authored.questions_bank
    /\ Cardinality(DOMAIN authored.questions_bank) >= 2
    /\ max_score_of(authored) > 0

C21_AcceptedInputConverts ==
    (valid = "True" /\ converted # Unconverted) =>
        /\ converted.exc = "none"
        /\ Cardinality(converted.value) = values
        /\ converted.value \subseteq 0..(max_index - 1)

\* the texts the validator accepts for the question on display and that
\* get_user_answer converts to the set of correct indices
CorrectInputs ==
    {text \in AnswerInputs :
        /\ is_valid_answer(text, Len(CurrentQuestion.answers), Cardinality(correct)) = "True"
        /\ UserAnswerSet(text).exc = "none"
        /\ UserAnswerSet(text).value = correct}

\* C22: for every question of a loaded quiz and every shuffle outcome, some text
\* is accepted by the validator and converted to the set of correct indices; and
\* a session in which every question was answered with that set ends with
\* show_result given a score equal to the maximum score.
C22_CorrectInputExists ==
    /\ pc = "ask" => CorrectInputs # {}
    /\ (pc = "done" /\ matched = Range(questions)) => result.score = result.max_score

\* the text is a string of the digits 0 to 9
IsNumber(text) == text # None /\ IsDigits(text)

\* the bank holds n questions
BankSize == Cardinality(BankKeys)

\* C23: with the count read as text, the count prompt is repeated until the
\* text is a string of digits or the empty string; the empty string, a number
\* that is 0 and a number above the size of the bank select the whole bank, and
\* a number n in 1..size selects n questions, which are the ones presented.
C23_CountPrompt ==
    [][/\ (pc = "ask_count" /\ user_input # None /\ user_input # <<>> /\ ~IsNumber(user_input)) =>
              pc' = "ask_count" /\ last_call' = "ask_questions_count"
       /\ (pc = "ask_count" /\ (user_input = <<>> \/ IsNumber(user_input))) =>
              pc' = "select"
       /\ (pc = "select" /\ pc' = "loop") =>
              LET n == IF user_input = <<>> THEN 0 ELSE DecimalValue(user_input)
              IN  /\ user_input = <<>> \/ IsNumber(user_input)
                  /\ (n = 0 \/ n > BankSize) => Len(questions') = BankSize
                  /\ (1 <= n /\ n <= BankSize) => Len(questions') = n
       /\ \A i \in 1..Len(presented') : presented'[i] = questions'[i]]_vars

\* C24: for every quiz Quiz.from_dict accepts, the running score never
\* decreases from one step of the session to the next, and it stays between 0
\* and the maximum score of the selected questions.
C24_ScoreBounds ==
    [][/\ score' >= score
       /\ 0 <= score'
       /\ score' <= max_score']_vars

\* C25: a unique_id names one question of a Quiz: no two questions of the bank
\* have the same unique_id, and add_question neither drops nor replaces a
\* question the bank already held, also when the new question has its id.
C25_UniqueIds ==
    [][authored' # NoObject =>
          LET bank == authored'.questions_bank
          IN  /\ \A u, v \in DOMAIN bank : bank[u].unique_id = bank[v].unique_id => u = v
              /\ op'.name = "add_question" =>
                     \A u \in DOMAIN authored.questions_bank :
                         u \in DOMAIN bank /\ bank[u] = authored.questions_bank[u]]_vars

\* the quiz as Quiz.from_dict built it from the file
LoadedQuiz == Quiz_from_dict(file.data).value

\* C26: a session does not change the content of the quiz: from the load to
\* show_result the title, the description, questions_count, max_score and the
\* keys of the bank are those of the quiz as loaded, and so are the score, the
\* title, the text and the set of (text, correct) answers of every question.
C26_SessionReadOnly ==
    quiz # NoObject =>
        /\ quiz.title = LoadedQuiz.title
        /\ quiz.description = LoadedQuiz.description
        /\ questions_count_of(quiz) = questions_count_of(LoadedQuiz)
        /\ max_score_of(quiz) = max_score_of(LoadedQuiz)
        /\ BankKeys = DOMAIN LoadedQuiz.questions_bank
        /\ \A u \in BankKeys :
               LET now == quiz.questions_bank[u]
                   then == LoadedQuiz.questions_bank[u]
               IN  /\ now.score = then.score
                   /\ now.title = then.title
                   /\ now.text = then.text
                   /\ Range(now.answers) = Range(then.answers)

\* a session came to its end after it displayed the answers of a question in
\* another order than the file's
C26_Witness ==
    /\ pc = "done"
    /\ results_shown = 1
    /\ \E u \in BankKeys : quiz.questions_bank[u].answers # LoadedQuiz.questions_bank[u].answers

\* C27: SIGINT ends the process at once, wherever the run is: the step of the
\* handler makes no call on the presentation adapter, show_result was not and is
\* not called, the exit status is 0, and no step follows it.
C27_InterruptTerminates ==
    [][/\ pc # "interrupted"
       /\ pc' = "interrupted" =>
              /\ called' = called
              /\ presented' = presented
              /\ results_shown' = 0
              /\ result' = NoObject
              /\ exit_status' = 0]_vars

\* SIGINT arrived at the answer prompt of the second question, with a score
C27_Witness ==
    /\ pc = "interrupted"
    /\ Len(questions) = 2
    /\ Len(presented) = 2
    /\ score > 0
    /\ user_answer # None
    /\ results_shown = 0

\* the file the last call of Quizz.load was given
LoadedFile == op.arg[1]

\* C28: a call of Quizz.load that returns gives the number of questions of the
\* file it was given and leaves max_score equal to the sum of the scores of the
\* questions held, on a first call and on a later one; a call given a file that
\* cannot be read or parsed raises UnableToLoadQuizz and leaves questions, meta
\* and max_score as they were.
C28_LoadAccounting ==
    [][op'.name = "load" =>
          /\ error' = "none" =>
                 /\ returned' = Len(LoadedFile'.data.questions)
                 /\ quizz'.max_score = SumOfScores(quizz'.questions)
          /\ LoadedFile'.state # "readable" =>
                 /\ error' = "UnableToLoadQuizz"
                 /\ quizz'.questions = quizz.questions
                 /\ quizz'.meta = quizz.meta
                 /\ quizz'.max_score = quizz.max_score]_vars

================================================================================
